---- MODULE Spec2Model ----
(***************************************************************************)
(* A model of the music puncher's motion-coordination core                 *)
(* (src/musicpuncher/music_puncher.py) driving the pigpio wave channel     *)
(* (src/pigpio_mock.py).                                                   *)
(*                                                                         *)
(* Modelling decisions:                                                    *)
(*  - a float event delay is a number of half time units (delay = d/2),    *)
(*    so that round(delay * feed_steps) is Python's round-half-to-even on  *)
(*    a rational and not the identity;                                     *)
(*  - wall-clock time is not modelled: the channel is busy from            *)
(*    wave_send_once until the environment action TxDone, and              *)
(*    __wait_for_wave returns only once wave_tx_busy() reads false;        *)
(*  - wave_create may refuse a wave (a negative id) at any send: the mock  *)
(*    never does, the device can;                                          *)
(*  - a note set is a Python list, which is what `notes == []` tests;      *)
(*  - log, planlog, prepared_from, homing_pulses and home_position are     *)
(*    history variables: they record what the program did and are never    *)
(*    read by it;                                                          *)
(*  - phys and txleft are the machine, not the program: where the tone     *)
(*    carriage stands and how many tone step pulses of the wave in flight  *)
(*    are still to come; a step pulse moves the carriage in the direction  *)
(*    the direction pin shows when the pulse is emitted;                   *)
(*  - call and ret hold a function called on its own (its arguments and    *)
(*    locals) and what it returned or raised.                              *)
(*                                                                         *)
(* Specifications:                                                         *)
(*  - Spec: one run() on an input sequence;                                *)
(*  - SpecAgain: run() called again on the same object after an error;     *)
(*  - SpecPhys: Spec with the device emitting step pulses one at a time;   *)
(*  - SpecHoming: reset() alone, with a fair scheduler and a fair channel; *)
(*  - SpecWaveform, SpecSync, SpecProfile: create_move_waveform,           *)
(*    __synchronize with __add_wave, and calculate_acceleration_profile    *)
(*    with the motor's constructor, each called on bounded arguments.      *)
(***************************************************************************)
EXTENDS Integers, Sequences, FiniteSets, TLC

VARIABLES
    cfg,                  \* config: the fields __init__ copies (lines 24-35)
    events,               \* self.notesequence: the input, a list of events
    button,               \* level of the zero sensor's pin (Button.is_on)
    pc,                   \* position of the single thread of control
    err,                  \* the error a failed run raised ("" while none)
    position,             \* self.position ("None" until reset assigns it)
    evi,                  \* run(): number of events consumed by the for loop
    planpos,              \* run(): the local variable position
    steps,                \* run()/do_run(): the MoveStep list
    idx,                  \* do_run(): loop index
    total_time_steps,     \* do_run(): running cumulative feed total
    cutter_step,          \* do_run(): the cutter trigger threshold
    did_cut,              \* do_run(): did_cut
    mv,                   \* __move(): its arguments and its call site
    pi,                   \* the pigpio channel: pending waves, busy flag
    prepared_wave_length, \* self.prepared_wave_length, in microseconds
    gpio,                 \* pin levels: direction pins, punch pin
    homing_pulses,        \* number of pulses move_until has emitted
    prepared_from,        \* history: the (feed, tone) pair last prepared
    log,                  \* history: the operations issued, in order
    planlog,              \* history: per event, planning position and visits
    home_position,        \* history: the position reset() assigned
    phys,                 \* the tone carriage's physical position: <<>> or <<steps>>
    txleft,               \* tone step pulses of the wave in flight not yet emitted
    call,                 \* a function called on its own: its name and arguments
    ret                   \* what that call returned or raised

vars == <<cfg, events, button, pc, err, position, evi, planpos, steps, idx,
          total_time_steps, cutter_step, did_cut, mv, pi,
          prepared_wave_length, gpio, homing_pulses, prepared_from, log,
          planlog,
          home_position, phys, txleft, call, ret>>

----------------------------------------------------------------------------
(* Bounds of the model.                                                    *)

\* longest event sequence given to run()
MaxEvents == 2
\* pulses move_until may emit while the sensor stays off
MaxHomingPulses == 1

----------------------------------------------------------------------------
(* Arithmetic helpers: Python's abs, round and >>.                         *)

\* abs(x)
Abs(x) == IF x < 0 THEN -x ELSE x

\* round(n / d) for d > 0: Python 3 rounds a tie to the even neighbour
PyRound(n, d) ==
    LET q == n \div d
        r == n % d
    IN  IF 2 * r < d THEN q
        ELSE IF 2 * r > d THEN q + 1
        ELSE IF q % 2 = 0 THEN q ELSE q + 1

\* x >> 1 on a Python int (floor division by two)
Shr1(x) == x \div 2

RECURSIVE Gcd(_, _)
Gcd(a, b) == IF b = 0 THEN a ELSE Gcd(b, a % b)

RECURSIVE SumSeq(_)
SumSeq(s) == IF s = <<>> THEN 0 ELSE Head(s) + SumSeq(Tail(s))

\* list.reverse()
Reverse(s) == [i \in 1..Len(s) |-> s[Len(s) + 1 - i]]

----------------------------------------------------------------------------
(* calculate_acceleration_profile, on exact rationals sps = p / q.         *)

\* line 180, sps += acceleration * (1 / sps), for sps = p / q with q > 0 and
\* p # 0: the new sps as <<numerator, denominator>>, in lowest terms
SpsAfter(p, q, acceleration) ==
    LET g   == Gcd(Abs(acceleration), Abs(p))
        a1  == acceleration \div g
        p1  == p \div g
        np  == p * p1 + a1 * q * q
        nq  == q * p1
        h   == Gcd(Abs(np), Abs(nq))
        sgn == IF nq < 0 THEN -1 ELSE 1
    IN  <<sgn * (np \div h), sgn * (nq \div h)>>

\* round(n / d) for d # 0
RoundDiv(n, d) == IF d > 0 THEN PyRound(n, d) ELSE PyRound(-n, -d)

\* lines 178-181 from sps = p / q on, for speeds for which the loop ends
RECURSIVE ProfileFrom(_, _, _, _, _)
ProfileFrom(p, q, max_sps, acceleration, profile) ==
    IF p >= max_sps * q THEN profile
    ELSE LET next == SpsAfter(p, q, acceleration)
         IN  ProfileFrom(next[1], next[2], max_sps, acceleration,
                         Append(profile, RoundDiv(1000000 * q, p)))

calculate_acceleration_profile(min_sps, max_sps, acceleration) ==
    ProfileFrom(min_sps, 1, max_sps, acceleration, <<>>)

\* The stepper configuration both axes are built from (config['feed-stepper'],
\* config['tone-stepper']): pins as in the legacy adapter.
StepperConfig ==
    [feed |-> [dir_pin |-> 17, step_pin |-> 18, min_sps |-> 40000,
               max_sps |-> 100000, acceleration |-> 1600000000],
     tone |-> [dir_pin |-> 22, step_pin |-> 23, min_sps |-> 40000,
               max_sps |-> 100000, acceleration |-> 1600000000]]

\* PiGPIOStepperMotor.__init__: self.acceleration_profile
AccelerationProfiles ==
    [axis \in DOMAIN StepperConfig |->
        calculate_acceleration_profile(StepperConfig[axis].min_sps,
                                       StepperConfig[axis].max_sps,
                                       StepperConfig[axis].acceleration)]

\* PiGPIOStepperMotor.create_move_waveform: profile = self.acceleration_profile
acceleration_profile(axis) == AccelerationProfiles[axis]

\* round(self.min_delay * 1000000) with self.min_delay = 1 / max_sps
min_delay_us(axis) == PyRound(1000000, StepperConfig[axis].max_sps)

----------------------------------------------------------------------------
(* PiGPIOStepperMotor.create_move_waveform: the pulses of one axis.        *)

\* pigpio.pulse(gpio_on, gpio_off, delay)
Pulse(on, off, delay) == [gpio_on |-> on, gpio_off |-> off, delay |-> delay]

\* 1 << step_pin
PinMask(pin) == 2 ^ pin

\* the outcome of a call: what it returned, or the exception it raised
Returned(value) == [raised |-> "", value |-> value]
Raised(e) == [raised |-> e, value |-> <<>>]

DeceleratingStrict(rem, steps_to_stop) == rem < steps_to_stop

\* line 226: the steps left are those needed to stop
Decelerating(rem, steps_to_stop) == rem <= steps_to_stop

\* lines 224-234, from iteration i on: profile[rem] of line 227 raises
\* IndexError when rem is no index of the profile
RECURSIVE MoveLoop(_, _, _, _, _, _, _)
MoveLoop(profile, mindelay, pin, count, i, steps_to_stop, pulses) ==
    IF i >= count THEN Returned(pulses)
    ELSE LET rem == count - i - 1
             dec == Decelerating(rem, steps_to_stop)
             acc == ~dec /\ i < Len(profile)
             delay_us == IF dec THEN profile[rem + 1]
                         ELSE IF acc THEN profile[i + 1]
                         ELSE mindelay
         IN  IF dec /\ rem >= Len(profile) THEN Raised("IndexError")
             ELSE MoveLoop(profile, mindelay, pin, count, i + 1,
                           IF acc THEN i ELSE steps_to_stop,
                           pulses \o <<Pulse(PinMask(pin), 0, Shr1(delay_us)),
                                       Pulse(0, PinMask(pin), Shr1(delay_us))>>)

\* lines 216-236 of create_move_waveform for a motor with the given profile,
\* min_delay_us and step pin: the pulse list, or the exception
MoveWaveform(profile, mindelay, pin, nsteps) ==
    MoveLoop(profile, mindelay, pin, Abs(nsteps), 0, 0, <<>>)

\* the pulse list create_move_waveform returns for an axis of the machine
create_move_waveform(axis, nsteps) ==
    MoveWaveform(acceleration_profile(axis), min_delay_us(axis),
                 StepperConfig[axis].step_pin, nsteps).value

DirLevelInverted(nsteps) == IF nsteps < 0 THEN 1 ELSE 0

\* the level __set_dir writes to the direction pin
DirLevel(nsteps) == IF nsteps < 0 THEN 0 ELSE 1

----------------------------------------------------------------------------
(* MusicPuncher.__synchronize                                              *)

\* wavelength(pulses)
wavelength(pulses) == SumSeq([i \in 1..Len(pulses) |-> pulses[i].delay])

scaleTruncating(pulses, num, den) ==
    [i \in 1..Len(pulses) |->
        [pulses[i] EXCEPT !.delay = (pulses[i].delay * num) \div den]]

\* scale(pulses, num / den)
scale(pulses, num, den) ==
    [i \in 1..Len(pulses) |->
        [pulses[i] EXCEPT !.delay = PyRound(pulses[i].delay * num, den)]]

\* the two (mutated) pulse lists and the returned length
synchronize(wave1, wave2) ==
    IF wave1 = <<>> THEN [w1 |-> wave1, w2 |-> wave2, len |-> wavelength(wave2)]
    ELSE IF wave2 = <<>>
         THEN [w1 |-> wave1, w2 |-> wave2, len |-> wavelength(wave1)]
    ELSE LET l1 == wavelength(wave1)
             l2 == wavelength(wave2)
         IN  IF l1 > l2
             THEN [w1 |-> wave1, w2 |-> scale(wave2, l1, l2), len |-> l1]
             ELSE [w1 |-> scale(wave1, l2, l1), w2 |-> wave2, len |-> l2]

----------------------------------------------------------------------------
(* MoveStep construction of MusicPuncher.run (lines 45-60).                *)

\* Keyboard.get_index, a pure lookup: the notes 60, 62, 64 are rows 0, 1, 2
get_index(note) == (note - 60) \div 2

RECURSIVE Insert(_, _)
Insert(x, s) ==
    IF s = <<>> THEN <<x>>
    ELSE IF x <= Head(s) THEN <<x>> \o s
    ELSE <<Head(s)>> \o Insert(x, Tail(s))

\* sorted(list)
RECURSIVE sorted(_)
sorted(s) == IF s = <<>> THEN <<>> ELSE Insert(Head(s), sorted(Tail(s)))

\* row0 + get_index(note) * tone_steps for each note, sorted (lines 50-51)
TargetPositions(c, notes) ==
    sorted([i \in 1..Len(notes) |-> c.row0 + get_index(notes[i]) * c.tone_steps])

VisitOrderTieReversed(p, positions) ==
    IF Abs(p - positions[Len(positions)]) <= Abs(p - positions[1])
    THEN Reverse(positions)
    ELSE positions

\* lines 52-53: start from the nearest end
VisitOrder(p, positions) ==
    IF Abs(p - positions[Len(positions)]) < Abs(p - positions[1])
    THEN Reverse(positions)
    ELSE positions

\* round(delayNotes.delay * self.feed_steps), the delay being delay2 / 2
ScaledDelay(c, delay2) == PyRound(delay2 * c.feed_steps, 2)

CandidatesKeepDelay(p, delay, order) ==
    [i \in 1..Len(order) |-> <<delay, order[i] - (IF i = 1 THEN p ELSE order[i - 1])>>]

\* lines 55-60: the candidate tuple of every target, in visiting order
RECURSIVE Candidates(_, _, _)
Candidates(p, delay, order) ==
    IF order = <<>> THEN <<>>
    ELSE <<(<<delay, Head(order) - p>>)>> \o Candidates(Head(order), 0, Tail(order))

\* lines 57-58: the candidates that are appended to steps
Kept(cands) == SelectSeq(cands, LAMBDA t : t # <<0, 0>>)

----------------------------------------------------------------------------
(* The inputs a behaviour starts from.                                     *)

\* The events a note sequence is made of, DelayNotes(delay, notes), the delay
\* in half time units: a note at the idle position after a delay of 0.5
\* (which scales to 0), an unsorted chord around the idle position after 1.5,
\* a chord of three with a repeated note, and an event with an empty note
\* list
EventSet ==
    {[delay2 |-> 1, notes |-> <<62>>],
     [delay2 |-> 3, notes |-> <<64, 60>>],
     [delay2 |-> 1, notes |-> <<62, 64, 62>>],
     [delay2 |-> 3, notes |-> <<>>]}

RECURSIVE SeqsUpTo(_, _)
SeqsUpTo(S, n) ==
    IF n = 0 THEN {<<>>}
    ELSE LET shorter == SeqsUpTo(S, n - 1)
         IN  shorter \cup {Append(q, x) : q \in {r \in shorter : Len(r) = n - 1},
                                          x \in S}

\* the configurations: config['zero-button'], ['idle-position'], ['row0'],
\* ['tone-steps'], ['feed-steps'], ['cutter-position'], ['end-feed']
Configs ==
    [zero_button : BOOLEAN, idle_position : {2}, row0 : {1}, tone_steps : {1},
     feed_steps : {1}, cutter_position : {-1, 0, 1}, end_feed : {0, 1}]

----------------------------------------------------------------------------
(* The pigpio channel (src/pigpio_mock.py) and the operations on it.       *)

\* ids wave_create may return: negative when the device refuses the wave
WaveIds == {-1, 0}

\* a history entry: the operation, its call site (ctx) and loop index (k),
\* the (feed, tone) pair it concerns, and what held when it was issued
Entry(op, ctx, k, feed, tone) ==
    [op |-> op, ctx |-> ctx, k |-> k, feed |-> feed, tone |-> tone,
     busy |-> pi.busy, pos |-> position, punch |-> gpio.punch, id |-> 0]

\* the indices of the history entries of operation op issued from ctx
At(op, ctx) == {i \in 1..Len(log) : log[i].op = op /\ log[i].ctx = ctx}

\* the indices of all entries of operation op
AtOp(op) == {i \in 1..Len(log) : log[i].op = op}

\* the calls of run() after the first
Reruns == AtOp("run")

add_waveAlways(waves, pulses) == Append(waves, pulses)

\* __add_wave: wave_add_generic unless the pulse list is empty
add_wave(waves, pulses) == IF Len(pulses) > 0 THEN Append(waves, pulses) ELSE waves

\* the pending waves after __prepare_waveform(timesteps, notesteps)
PreparedWaves(timesteps, notesteps) ==
    LET sy == synchronize(create_move_waveform("feed", timesteps),
                          create_move_waveform("tone", notesteps))
    IN  add_wave(add_wave(<<>>, sy.w1), sy.w2)

\* __prepare_waveform: wave_clear, both create_move_waveform calls (each
\* writes its direction pin), __synchronize, both __add_wave calls
Prepare(timesteps, notesteps, ctx, k) ==
    /\ pi' = [pi EXCEPT !.waves = PreparedWaves(timesteps, notesteps)]
    /\ gpio' = [gpio EXCEPT !.feed_dir = DirLevel(timesteps),
                            !.tone_dir = DirLevel(notesteps)]
    /\ prepared_wave_length' =
          synchronize(create_move_waveform("feed", timesteps),
                      create_move_waveform("tone", notesteps)).len
    /\ prepared_from' = <<timesteps, notesteps>>
    /\ log' = Append(log, Entry("prepare", ctx, k, timesteps, notesteps))

\* wave_send_once of the mock: busy until the longest pending wave has run
RECURSIVE MaxWavetime(_)
MaxWavetime(waves) ==
    IF waves = <<>> THEN 0
    ELSE LET t == wavelength(Head(waves))
             r == MaxWavetime(Tail(waves))
         IN  IF t > r THEN t ELSE r

\* the step pulses for one axis a pulse list holds: those raising its step pin
RECURSIVE CountSteps(_, _)
CountSteps(pulses, axis) ==
    IF pulses = <<>> THEN 0
    ELSE (IF Head(pulses).gpio_on = PinMask(StepperConfig[axis].step_pin)
          THEN 1 ELSE 0) + CountSteps(Tail(pulses), axis)

\* the step pulses for one axis in the pending waves, which wave_create merges
\* into the wave that wave_send_once transmits
StepPulses(waves, axis) ==
    SumSeq([i \in 1..Len(waves) |-> CountSteps(waves[i], axis)])

\* raise RuntimeError(...): the run is aborted
Raise(e) == pc' = "error" /\ err' = e

RejectedNever(id) == FALSE

\* line 128: wave_create refused the wave
Rejected(id) == id < 0

\* __create_and_send_wave (lines 126-131); next is where control continues
CreateAndSend(ctx, k, next) ==
    \E id \in WaveIds :
        LET created == Append(log, [Entry("create", ctx, k, prepared_from[1],
                                          prepared_from[2]) EXCEPT !.id = id])
        IN  IF Rejected(id)
            THEN /\ Raise("DeviceError")
                 /\ log' = created
                 /\ pi' = pi
                 /\ txleft' = txleft
            ELSE /\ pi' = [pi EXCEPT !.busy = MaxWavetime(pi.waves) > 0]
                 /\ txleft' = StepPulses(pi.waves, "tone")
                 /\ log' = Append(created,
                                  Entry("send", ctx, k, prepared_from[1],
                                        prepared_from[2]))
                 /\ pc' = next
                 /\ err' = err

WaitAlways == TRUE

\* __wait_for_wave returns once wave_tx_busy() is false
WaitOver == ~pi.busy

----------------------------------------------------------------------------
(* Initial state: the object after __init__, run() about to be called.     *)

\* the fields __init__ assigns (line 36) and the locals of run() and
\* do_run() before their first assignment; nothing has moved
Constructed ==
    /\ err = ""
    /\ position = "None"
    /\ evi = 0
    /\ planpos = 0
    /\ steps = <<>>
    /\ idx = 0
    /\ total_time_steps = 0
    /\ cutter_step = 0
    /\ did_cut = FALSE
    /\ mv = [feed |-> 0, tone |-> 0, ctx |-> ""]
    /\ pi = [waves |-> <<>>, busy |-> FALSE]
    /\ prepared_wave_length = 0
    /\ gpio = [feed_dir |-> 0, tone_dir |-> 0, punch |-> 0]
    /\ homing_pulses = 0
    /\ prepared_from = <<0, 0>>
    /\ log = <<>>
    /\ planlog = <<>>
    /\ home_position = "None"
    /\ phys = <<>>
    /\ txleft = 0

Init ==
    /\ cfg \in Configs
    /\ events \in SeqsUpTo(EventSet, MaxEvents)
    /\ button \in (IF cfg.zero_button THEN BOOLEAN ELSE {FALSE})
    /\ pc = "run"
    /\ call = [fn |-> "run"]
    /\ ret = "None"
    /\ Constructed

----------------------------------------------------------------------------
(* __move(feedsteps, tonesteps), called from reset and from the end of     *)
(* do_run; ctx names the call site.                                        *)

\* where control continues when the __move called at ctx returns
AfterMove(ctx) ==
    CASE ctx = "home"    -> "planinit"
      [] ctx = "cutfeed" -> "fin_cut"
      [] ctx = "endfeed" -> "fin_idle"
      [] ctx = "idle"    -> "done"

CallMoveUnchecked(feedsteps, tonesteps, ctx) ==
    pc' = "mv_prepare"
    /\ mv' = [feed |-> feedsteps, tone |-> tonesteps, ctx |-> ctx]

\* lines 100-101: the call returns at once for (0, 0)
CallMove(feedsteps, tonesteps, ctx) ==
    IF feedsteps = 0 /\ tonesteps = 0
    THEN pc' = AfterMove(ctx) /\ mv' = mv
    ELSE pc' = "mv_prepare"
         /\ mv' = [feed |-> feedsteps, tone |-> tonesteps, ctx |-> ctx]

\* line 102
MovePrepare ==
    /\ pc = "mv_prepare"
    /\ Prepare(mv.feed, mv.tone, mv.ctx, -1)
    /\ pc' = "mv_send"
    /\ UNCHANGED <<call, ret, phys, txleft,
                   cfg, events, button, err, position, evi, planpos, steps, idx,
                   total_time_steps, cutter_step, did_cut, mv, homing_pulses,
                   planlog, home_position>>

\* line 103
MoveSend ==
    /\ pc = "mv_send"
    /\ CreateAndSend(mv.ctx, -1, "mv_wait")
    /\ UNCHANGED <<call, ret, phys, cfg, events, button, position, evi, planpos, steps, idx,
                   total_time_steps, cutter_step, did_cut, mv,
                   prepared_wave_length, gpio, homing_pulses, prepared_from,
                   planlog, home_position>>

\* lines 104-105
MoveWait ==
    /\ pc = "mv_wait"
    /\ WaitOver
    /\ position' = position + mv.tone
    /\ log' = Append(log, Entry("idle", mv.ctx, -1, mv.feed, mv.tone))
    /\ pc' = AfterMove(mv.ctx)
    /\ UNCHANGED <<call, ret, phys, txleft,
                   cfg, events, button, err, evi, planpos, steps, idx,
                   total_time_steps, cutter_step, did_cut, mv, pi,
                   prepared_wave_length, gpio, homing_pulses, prepared_from,
                   planlog, home_position>>

\* the displacement of one tone step pulse: the stepper driver reads the
\* direction pin (line 199: 0 is negative) when the step pin rises
ToneStep == IF gpio.tone_dir = 0 THEN -1 ELSE 1

\* the carriage after n steps: where it stands is not known (<<>>) until
\* reset() has fixed the origin (lines 111, 115)
Carried(p, n) == IF p = <<>> THEN p ELSE <<p[1] + n>>

\* the channel finishes transmitting the wave that was sent: the tone pulses
\* still to come are emitted, the direction pin standing as it does now
TxDone ==
    /\ pi.busy
    /\ pi' = [pi EXCEPT !.busy = FALSE]
    /\ phys' = Carried(phys, txleft * ToneStep)
    /\ txleft' = 0
    /\ UNCHANGED <<call, ret, cfg, events, button, pc, err, position, evi, planpos, steps,
                   idx, total_time_steps, cutter_step, did_cut, mv,
                   prepared_wave_length, gpio, homing_pulses, prepared_from,
                   log, planlog, home_position>>

----------------------------------------------------------------------------
(* reset (lines 107-115) and move_until (lines 207-211).                   *)

\* run() calls reset(): without a sensor the idle position is adopted. The
\* carriage is where the operator aligned it (line 114) when the object is
\* new, and where the moves so far have left it otherwise
Reset ==
    /\ pc = "run"
    /\ IF cfg.zero_button
       THEN /\ pc' = "homing"
            /\ gpio' = [gpio EXCEPT !.tone_dir = DirLevel(-1)]
            /\ position' = position
            /\ phys' = phys
       ELSE /\ pc' = "planinit"
            /\ position' = cfg.idle_position
            /\ gpio' = gpio
            /\ phys' = IF phys = <<>> THEN <<cfg.idle_position>> ELSE phys
    /\ UNCHANGED <<call, ret, txleft, cfg, events, button, err, evi, planpos, steps, idx,
                   total_time_steps, cutter_step, did_cut, mv, pi,
                   prepared_wave_length, homing_pulses, prepared_from, log,
                   planlog, home_position>>

\* one test of `while not condition()`: a pulse while the sensor reads off
HomingPulse ==
    /\ pc = "homing"
    /\ ~button
    /\ homing_pulses < MaxHomingPulses
    /\ homing_pulses' = homing_pulses + 1
    /\ phys' = Carried(phys, ToneStep)
    /\ log' = Append(log, Entry("pulse", "home", -1, 0, -1))
    /\ UNCHANGED <<call, ret, txleft, cfg, events, button, pc, err, position, evi, planpos, steps,
                   idx, total_time_steps, cutter_step, did_cut, mv, pi,
                   prepared_wave_length, gpio, prepared_from, planlog,
                   home_position>>

\* the sensor reads on: lines 111-112. Where the sensor reads on is, by
\* line 111, the origin positions are counted from
HomingDone ==
    /\ pc = "homing"
    /\ button
    /\ CallMove(0, cfg.idle_position, "home")
    /\ position' = 0
    /\ phys' = <<0>>
    /\ UNCHANGED <<call, ret, txleft, cfg, events, button, err, evi, planpos, steps, idx,
                   total_time_steps, cutter_step, did_cut, pi,
                   prepared_wave_length, gpio, homing_pulses, prepared_from,
                   log, planlog, home_position>>

\* the carriage reaches the zero switch
SensorOn ==
    /\ pc = "homing"
    /\ ~button
    /\ button' = TRUE
    /\ UNCHANGED <<call, ret, phys, txleft,
                   cfg, events, pc, err, position, evi, planpos, steps, idx,
                   total_time_steps, cutter_step, did_cut, mv, pi,
                   prepared_wave_length, gpio, homing_pulses, prepared_from,
                   log, planlog, home_position>>

----------------------------------------------------------------------------
(* run (lines 42-62): the MoveStep list is built, then do_run is called.   *)

\* lines 45-46, once reset has returned
PlanInit ==
    /\ pc = "planinit"
    /\ planpos' = position
    /\ steps' = <<>>
    /\ home_position' = position
    /\ pc' = "plan"
    /\ UNCHANGED <<call, ret, phys, txleft,
                   cfg, events, button, err, position, evi, idx,
                   total_time_steps, cutter_step, did_cut, mv, pi,
                   prepared_wave_length, gpio, homing_pulses, prepared_from,
                   log, planlog>>

EmptyNoteSetUnchecked(ev) == FALSE

\* line 48: delayNotes.notes == []
EmptyNoteSet(ev) == ev.notes = <<>>

\* one iteration of `for delayNotes in self.notesequence` (lines 47-60);
\* positions[-1] of an empty list (line 52) is an IndexError
PlanEvent ==
    /\ pc = "plan"
    /\ evi < Len(events)
    /\ LET ev == events[evi + 1]
       IN  IF EmptyNoteSet(ev)
           THEN /\ Raise("InvalidInput")
                /\ UNCHANGED <<evi, planpos, steps, planlog>>
           ELSE IF TargetPositions(cfg, ev.notes) = <<>>
           THEN /\ Raise("IndexError")
                /\ UNCHANGED <<evi, planpos, steps, planlog>>
           ELSE LET order == VisitOrder(planpos, TargetPositions(cfg, ev.notes))
                    delay == ScaledDelay(cfg, ev.delay2)
                    cands == Candidates(planpos, delay, order)
                IN  /\ steps' = steps \o Kept(cands)
                    /\ planpos' = order[Len(order)]
                    /\ evi' = evi + 1
                    /\ planlog' = Append(planlog,
                                         [p |-> planpos, order |-> order,
                                          delay |-> delay, cands |-> cands,
                                          kept |-> Kept(cands)])
                    /\ UNCHANGED <<pc, err>>
    /\ UNCHANGED <<call, ret, phys, txleft,
                   cfg, events, button, position, idx, total_time_steps,
                   cutter_step, did_cut, mv, pi, prepared_wave_length, gpio,
                   homing_pulses, prepared_from, log, home_position>>

\* sum of step[0] over steps (lines 66-68)
FeedTotal(st) == SumSeq([i \in 1..Len(st) |-> st[i][1]])

\* line 62 and lines 66-73: do_run(steps) starts
DoRunStart ==
    /\ pc = "plan"
    /\ evi = Len(events)
    /\ cutter_step' = FeedTotal(steps) + cfg.cutter_position
    /\ did_cut' = FALSE
    /\ total_time_steps' = 0
    /\ idx' = 0
    /\ pc' = "loop"
    /\ UNCHANGED <<call, ret, phys, txleft,
                   cfg, events, button, err, position, evi, planpos, steps, mv,
                   pi, prepared_wave_length, gpio, homing_pulses, prepared_from,
                   log, planlog, home_position>>

----------------------------------------------------------------------------
(* do_run: the per-step loop (lines 74-87).                                *)

\* the for statement and lines 75-76
LoopHead ==
    /\ pc = "loop"
    /\ IF idx < Len(steps)
       THEN /\ pc' = "send"
            /\ IF idx = 0
               THEN Prepare(steps[1][1], steps[1][2], "step", 0)
               ELSE UNCHANGED <<pi, gpio, prepared_wave_length, prepared_from,
                                log>>
       ELSE /\ pc' = "fin"
            /\ UNCHANGED <<pi, gpio, prepared_wave_length, prepared_from, log>>
    /\ UNCHANGED <<call, ret, phys, txleft,
                   cfg, events, button, err, position, evi, planpos, steps, idx,
                   total_time_steps, cutter_step, did_cut, mv, homing_pulses,
                   planlog, home_position>>

\* line 77
LoopSend ==
    /\ pc = "send"
    /\ CreateAndSend("step", idx, "prepnext")
    /\ UNCHANGED <<call, ret, phys, cfg, events, button, position, evi, planpos, steps, idx,
                   total_time_steps, cutter_step, did_cut, mv,
                   prepared_wave_length, gpio, homing_pulses, prepared_from,
                   planlog, home_position>>

NextStepIsCurrent == steps[idx + 1]

\* line 79: steps[idx + 1], the step after the one in flight
NextStep == steps[idx + 2]

\* lines 78-79
LoopPrepareNext ==
    /\ pc = "prepnext"
    /\ IF idx < Len(steps) - 1
       THEN Prepare(NextStep[1], NextStep[2], "step", idx + 1)
       ELSE UNCHANGED <<pi, gpio, prepared_wave_length, prepared_from, log>>
    /\ pc' = "wait"
    /\ UNCHANGED <<call, ret, phys, txleft,
                   cfg, events, button, err, position, evi, planpos, steps, idx,
                   total_time_steps, cutter_step, did_cut, mv, homing_pulses,
                   planlog, home_position>>

\* lines 80-81
LoopWait ==
    /\ pc = "wait"
    /\ WaitOver
    /\ position' = position + steps[idx + 1][2]
    /\ log' = Append(log, Entry("idle", "step", idx, steps[idx + 1][1],
                                steps[idx + 1][2]))
    /\ pc' = "punch"
    /\ UNCHANGED <<call, ret, phys, txleft,
                   cfg, events, button, err, evi, planpos, steps, idx,
                   total_time_steps, cutter_step, did_cut, mv, pi,
                   prepared_wave_length, gpio, homing_pulses, prepared_from,
                   planlog, home_position>>

\* Puncher.punch, lines 264-265: the pin goes high and is held
PunchOn ==
    /\ pc = "punch"
    /\ gpio' = [gpio EXCEPT !.punch = 1]
    /\ log' = Append(log, Entry("punch", "step", idx, steps[idx + 1][1],
                                steps[idx + 1][2]))
    /\ pc' = "punching"
    /\ UNCHANGED <<call, ret, phys, txleft,
                   cfg, events, button, err, position, evi, planpos, steps, idx,
                   total_time_steps, cutter_step, did_cut, mv, pi,
                   prepared_wave_length, homing_pulses, prepared_from, planlog,
                   home_position>>

\* Puncher.punch, lines 266-267, then line 83
PunchOff ==
    /\ pc = "punching"
    /\ gpio' = [gpio EXCEPT !.punch = 0]
    /\ total_time_steps' = total_time_steps + steps[idx + 1][1]
    /\ pc' = "cutcheck"
    /\ UNCHANGED <<call, ret, phys, txleft,
                   cfg, events, button, err, position, evi, planpos, steps, idx,
                   cutter_step, did_cut, mv, pi, prepared_wave_length,
                   homing_pulses, prepared_from, log, planlog, home_position>>

CutNowAgain == total_time_steps >= cutter_step

CutNowStrict == ~did_cut /\ total_time_steps > cutter_step

\* line 85: the cutter fires at this move boundary
CutNow == ~did_cut /\ total_time_steps >= cutter_step

\* lines 85-87, and the loop steps to the next index
CutCheck ==
    /\ pc = "cutcheck"
    /\ IF CutNow
       THEN /\ log' = Append(log, Entry("cut", "step", idx, 0, 0))
            /\ did_cut' = TRUE
       ELSE UNCHANGED <<log, did_cut>>
    /\ idx' = idx + 1
    /\ pc' = "loop"
    /\ UNCHANGED <<call, ret, phys, txleft,
                   cfg, events, button, err, position, evi, planpos, steps,
                   total_time_steps, cutter_step, mv, pi, prepared_wave_length,
                   gpio, homing_pulses, prepared_from, planlog, home_position>>

----------------------------------------------------------------------------
(* do_run: finalization (lines 89-97).                                     *)

ReturnToIdleReversed == position - cfg.idle_position

\* the tonesteps argument of the three closing __move calls
ReturnToIdle == cfg.idle_position - position

\* lines 89-91
Fin ==
    /\ pc = "fin"
    /\ IF ~did_cut
       THEN IF cfg.cutter_position > 0
            THEN CallMove(cfg.cutter_position, ReturnToIdle, "cutfeed")
            ELSE pc' = "fin_cut" /\ mv' = mv
       ELSE pc' = "fin_endfeed" /\ mv' = mv
    /\ UNCHANGED <<call, ret, phys, txleft,
                   cfg, events, button, err, position, evi, planpos, steps, idx,
                   total_time_steps, cutter_step, did_cut, pi,
                   prepared_wave_length, gpio, homing_pulses, prepared_from,
                   log, planlog, home_position>>

\* line 92
FinCut ==
    /\ pc = "fin_cut"
    /\ log' = Append(log, Entry("cut", "fin", -1, 0, 0))
    /\ pc' = "fin_endfeed"
    /\ UNCHANGED <<call, ret, phys, txleft,
                   cfg, events, button, err, position, evi, planpos, steps, idx,
                   total_time_steps, cutter_step, did_cut, mv, pi,
                   prepared_wave_length, gpio, homing_pulses, prepared_from,
                   planlog, home_position>>

\* lines 94-95
FinEndFeed ==
    /\ pc = "fin_endfeed"
    /\ IF cfg.end_feed > 0
       THEN CallMove(cfg.end_feed, ReturnToIdle, "endfeed")
       ELSE pc' = "fin_idle" /\ mv' = mv
    /\ UNCHANGED <<call, ret, phys, txleft,
                   cfg, events, button, err, position, evi, planpos, steps, idx,
                   total_time_steps, cutter_step, did_cut, pi,
                   prepared_wave_length, gpio, homing_pulses, prepared_from,
                   log, planlog, home_position>>

\* line 97
FinIdle ==
    /\ pc = "fin_idle"
    /\ CallMove(0, ReturnToIdle, "idle")
    /\ UNCHANGED <<call, ret, phys, txleft,
                   cfg, events, button, err, position, evi, planpos, steps, idx,
                   total_time_steps, cutter_step, did_cut, pi,
                   prepared_wave_length, gpio, homing_pulses, prepared_from,
                   log, planlog, home_position>>

----------------------------------------------------------------------------

Next ==
    \/ Reset
    \/ HomingPulse
    \/ HomingDone
    \/ SensorOn
    \/ MovePrepare
    \/ MoveSend
    \/ MoveWait
    \/ TxDone
    \/ PlanInit
    \/ PlanEvent
    \/ DoRunStart
    \/ LoopHead
    \/ LoopSend
    \/ LoopPrepareNext
    \/ LoopWait
    \/ PunchOn
    \/ PunchOff
    \/ CutCheck
    \/ Fin
    \/ FinCut
    \/ FinEndFeed
    \/ FinIdle

Spec == Init /\ [][Next]_vars

----------------------------------------------------------------------------
(* Reading the history.                                                    *)

\* the number of times the cutter has fired
Cuts == Cardinality(AtOp("cut"))

\* cumulative feed of the first n moves of the plan
CumFeed(n) == SumSeq([i \in 1..n |-> steps[i][1]])

\* cumulative tone displacement of the first n moves of the plan
CumTone(n) == SumSeq([i \in 1..n |-> steps[i][2]])

\* T + O: the sum of all feed delays of the plan plus the cutter offset
Threshold == CumFeed(Len(steps)) + cfg.cutter_position

\* the move boundaries (1-based move numbers) whose cumulative feed reaches T + O
Reaching == {n \in 1..Len(steps) : CumFeed(n) >= Threshold}

\* the first of them
FirstReaching == CHOOSE n \in Reaching : \A m \in Reaching : n <= m

\* do_run has been entered: the plan is complete
InDoRun ==
    pc \in {"loop", "send", "prepnext", "wait", "punch", "punching", "cutcheck",
            "fin", "fin_cut", "fin_endfeed", "fin_idle", "done"}
    \/ (pc \in {"mv_prepare", "mv_send", "mv_wait"} /\ mv.ctx # "home")
    \/ (pc = "error" /\ err = "DeviceError" /\ log[Len(log)].ctx # "home")

----------------------------------------------------------------------------
(* C1: a run of do_run that completes without error has fired the cutter   *)
(* exactly once, whatever the step list (the empty one included) and the   *)
(* cutter offset (negative, zero or positive); at no point of a run has    *)
(* the cutter fired twice.                                                 *)
C1_CutterFiresExactlyOnce ==
    /\ Cuts <= 1
    /\ pc = "done" => Cuts = 1

\* a completed run over a plan of two or more moves with a negative offset
C1_Witness ==
    /\ pc = "done"
    /\ Cuts = 1
    /\ Len(steps) >= 2
    /\ cfg.cutter_position < 0

\* the per-step loop has ended
LoopOver ==
    pc \in {"fin", "fin_cut", "fin_endfeed", "fin_idle", "done"}
    \/ (pc \in {"mv_prepare", "mv_send", "mv_wait"} /\ mv.ctx # "home")

(* C2: with T the sum of the plan's feed delays and O the cutter offset: if *)
(* some move boundary has cumulative feed >= T + O, the cutter fires at the *)
(* first such boundary, right after that move's punch has completed and     *)
(* before the next move's waveform is sent, and not at finalization;        *)
(* otherwise it does not fire in the per-step loop and fires at the         *)
(* finalization step, after every move of the plan.                         *)
C2_CutAtFirstReachingBoundary ==
    InDoRun =>
      LET cuts  == AtOp("cut")
          sends == At("send", "step")
          reach == Reaching
          first == CHOOSE n \in reach : \A m \in reach : n <= m
      IN  IF reach # {}
          THEN /\ \A i \in cuts :
                    /\ log[i].ctx = "step"
                    /\ log[i].k = first - 1
                    /\ log[i].punch = 0
                    /\ i > 1
                    /\ log[i - 1].op = "punch"
                    /\ log[i - 1].k = first - 1
               /\ \A j \in sends :
                    log[j].k >= first => \E i \in cuts : i < j
               /\ LoopOver => Cardinality(cuts) = 1
          ELSE /\ \A i \in cuts :
                    /\ log[i].ctx = "fin"
                    /\ Cardinality({j \in At("punch", "step") : j < i}) = Len(steps)
                    /\ Cardinality({j \in sends : j < i}) = Len(steps)
               /\ pc = "done" => Cardinality(cuts) = 1

\* the cutter fired at a boundary that is not the last one, and the next move
\* was sent afterwards
C2_Witness ==
    /\ pc = "done"
    /\ Reaching # {}
    /\ FirstReaching < Len(steps)
    /\ \E i \in At("cut", "step") : \E j \in At("send", "step") : i < j

(* C3: punches never overlap with axis motion. The punch of move k fires    *)
(* only after the waveform of move k has been sent, the channel has         *)
(* reported idle and position has been increased by move k's tone delta;    *)
(* the waveform of move k+1 is not sent until the punch of move k has       *)
(* completed; and whenever the punch actuator is firing the channel is not  *)
(* transmitting.                                                            *)
C3_PunchNeverOverlapsMotion ==
    /\ gpio.punch = 1 => ~pi.busy
    /\ \A i \in AtOp("punch") :
         /\ ~log[i].busy
         /\ i > 1
         /\ log[i - 1].op = "idle"
         /\ log[i - 1].k = log[i].k
         /\ ~log[i - 1].busy
         /\ \E j \in At("send", "step") :
               /\ j < i
               /\ log[j].k = log[i].k
               /\ log[i].pos = log[j].pos + steps[log[i].k + 1][2]
    /\ \A j \in At("send", "step") :
         /\ log[j].punch = 0
         /\ log[j].k > 0 =>
               \E i \in AtOp("punch") : i < j /\ log[i].k = log[j].k - 1

\* the punch of the second move is firing
C3_Witness ==
    /\ gpio.punch = 1
    /\ pc = "punching"
    /\ idx = 1
    /\ steps[2][2] # 0

(* C4: pipelined ordering in the per-step loop. The waveform sent for move  *)
(* k is the one prepared from move k's (feed, tone) pair; the waveform for  *)
(* move k+1 (when it exists) is prepared after move k is sent and before    *)
(* the sequencer waits for move k to finish; exactly one send occurs per    *)
(* MoveStep, in plan order.                                                 *)
C4_PipelinedOrdering ==
    /\ pc = "send" =>
          /\ prepared_from = steps[idx + 1]
          /\ pi.waves = PreparedWaves(steps[idx + 1][1], steps[idx + 1][2])
    /\ \A j \in At("send", "step") :
          /\ <<log[j].feed, log[j].tone>> = steps[log[j].k + 1]
          /\ log[j].k = Cardinality({i \in At("send", "step") : i < j})
          /\ (log[j].k + 1 < Len(steps) /\ j < Len(log)) =>
                (log[j + 1].op = "prepare" /\ log[j + 1].k = log[j].k + 1)
    /\ \A i \in At("prepare", "step") :
          /\ <<log[i].feed, log[i].tone>> = steps[log[i].k + 1]
          /\ log[i].k >= 1 =>
                /\ log[i - 1].op = "send"
                /\ log[i - 1].k = log[i].k - 1
                /\ i < Len(log) =>
                      (log[i + 1].op = "idle" /\ log[i + 1].k = log[i].k - 1)
    /\ (InDoRun /\ LoopOver) => Cardinality(At("send", "step")) = Len(steps)

\* the second move has been prepared while the first is still transmitting
C4_Witness ==
    /\ pc = "wait"
    /\ idx = 0
    /\ Len(steps) >= 2
    /\ pi.busy
    /\ prepared_from = steps[2]
    /\ steps[2] # steps[1]

(* C5 as stated: the finalization moves (the feed to the cutter position    *)
(* and the end-feed move) are feed-only, with tone displacement 0 whatever  *)
(* the tone position is when the per-step loop ends.                        *)
C5_Original_FinalizationFeedOnly ==
    \A i \in At("send", "cutfeed") \cup At("send", "endfeed") : log[i].tone = 0

(* C5, amended: the feed to the cutter position and the end-feed move feed  *)
(* by the cutter offset and by the end-feed amount, and at the same time    *)
(* move the tone axis by idle_position - position, back to idle; their tone *)
(* displacement is 0 exactly when the tone axis is at idle already.         *)
C5_FinalizationMovesReturnToIdle ==
    /\ \A i \in At("send", "cutfeed") :
          /\ log[i].feed = cfg.cutter_position
          /\ log[i].tone = cfg.idle_position - log[i].pos
    /\ \A i \in At("send", "endfeed") :
          /\ log[i].feed = cfg.end_feed
          /\ log[i].tone = cfg.idle_position - log[i].pos
    /\ \A i \in At("idle", "cutfeed") \cup At("idle", "endfeed") :
          log[i].pos + log[i].tone = cfg.idle_position

\* the feed to the cutter position also moved the tone axis
C5_Witness ==
    /\ pc = "done"
    /\ \E i \in At("send", "cutfeed") : log[i].tone # 0

\* the tone displacements of the waveforms sent since homing, summed
ToneSentSinceHoming ==
    SumSeq([i \in 1..Len(log) |->
              IF log[i].op = "send" /\ log[i].ctx # "home" THEN log[i].tone ELSE 0])

(* C6: after a run that completes without error, position equals the idle  *)
(* position and the tone displacements of all waveforms sent since homing   *)
(* sum to idle position minus post-homing position; the final              *)
(* return-to-idle step sends a waveform only when the tone axis is not at   *)
(* idle.                                                                    *)
C6_RunEndsAtIdle ==
    /\ pc = "done" =>
          /\ position = cfg.idle_position
          /\ ToneSentSinceHoming = cfg.idle_position - home_position
    /\ \A i \in At("prepare", "idle") \cup At("send", "idle") :
          log[i].pos # cfg.idle_position

\* the plan itself ended at idle: the closing steps sent no waveform
C6_Witness ==
    /\ pc = "done"
    /\ Len(steps) >= 2
    /\ position = cfg.idle_position
    /\ AtOp("send") = At("send", "step")
    /\ AtOp("prepare") = At("prepare", "step")

----------------------------------------------------------------------------
(* Reading the planning history.                                           *)

\* the integer nearest to n / d, the even one of two equally near
NearestEven(n, d) ==
    CHOOSE r \in 0..n :
        \/ 2 * Abs(r * d - n) < d
        \/ (2 * Abs(r * d - n) = d /\ r % 2 = 0)

\* the absolute target position a note resolves to
Resolve(note) == cfg.row0 + get_index(note) * cfg.tone_steps

\* the tone travel of visiting the positions of o in order, from p
Travel(p, o) ==
    SumSeq([i \in 1..Len(o) |-> Abs(o[i] - (IF i = 1 THEN p ELSE o[i - 1]))])

\* the visiting orders of n targets, for every size of note list
Orders ==
    [n \in {Len(e.notes) : e \in EventSet} |->
        {f : f \in {g \in [1..n -> 1..n] :
                        \A a, b \in 1..n : g[a] = g[b] => a = b}}]

RECURSIVE Flatten(_)
Flatten(ss) == IF ss = <<>> THEN <<>> ELSE Head(ss) \o Flatten(Tail(ss))

(* C7: MoveStep construction. No (0,0) pair is in the step list; of the     *)
(* candidate moves of an event only the first carries the event's scaled    *)
(* delay and the later ones carry feed delay 0; the feed delays of the      *)
(* step list sum to the sum of round(delay * feed_steps) over the events;   *)
(* the tone deltas sum to the last visited target minus the starting        *)
(* position.                                                                *)
C7_MoveStepConstruction ==
    /\ \A i \in 1..Len(steps) : steps[i] # <<0, 0>>
    /\ Len(planlog) = evi
    /\ steps = Flatten([j \in 1..Len(planlog) |-> planlog[j].kept])
    /\ \A j \in 1..Len(planlog) :
          LET e == planlog[j]
          IN  /\ Len(e.cands) = Len(events[j].notes)
              /\ e.cands[1][1] = NearestEven(events[j].delay2 * cfg.feed_steps, 2)
              /\ \A m \in 2..Len(e.cands) : e.cands[m][1] = 0
              /\ e.kept = SelectSeq(e.cands, LAMBDA t : t # <<0, 0>>)
    /\ CumFeed(Len(steps)) =
          SumSeq([j \in 1..evi |-> NearestEven(events[j].delay2 * cfg.feed_steps, 2)])
    /\ evi > 0 =>
          /\ planpos = planlog[evi].order[Len(planlog[evi].order)]
          /\ CumTone(Len(steps)) = planpos - home_position

\* a plan of two events: a candidate (0,0) was dropped from one chord, and
\* a chord with a nonzero delay gave two moves
C7_Witness ==
    /\ pc = "loop"
    /\ evi = 2
    /\ \E j \in 1..2 : Len(planlog[j].kept) < Len(planlog[j].cands)
    /\ \E j \in 1..2 : Len(planlog[j].kept) >= 2 /\ planlog[j].delay > 0

(* C8: chord visiting order. With the resolved targets of an event and the  *)
(* planning position p, the targets are visited in descending order when    *)
(* |p - max| < |p - min| and in ascending order otherwise (a tie visits the *)
(* lowest first); the tone travel of the chord is                           *)
(* min(|p - min|, |p - max|) + (max - min), the least over all visiting     *)
(* orders.                                                                  *)
C8_ChordVisitingOrder ==
    \A j \in 1..Len(planlog) :
        LET p  == planlog[j].p
            o  == planlog[j].order
            n  == Len(o)
            ts == [i \in 1..n |-> Resolve(events[j].notes[i])]
            lo == CHOOSE x \in {ts[i] : i \in 1..n} : \A i \in 1..n : x <= ts[i]
            hi == CHOOSE x \in {ts[i] : i \in 1..n} : \A i \in 1..n : x >= ts[i]
            near == IF Abs(p - lo) < Abs(p - hi) THEN Abs(p - lo) ELSE Abs(p - hi)
            tr == Travel(p, o)
        IN  /\ \E f \in Orders[n] : o = [i \in 1..n |-> ts[f[i]]]
            /\ IF Abs(p - hi) < Abs(p - lo)
               THEN \A i \in 1..(n - 1) : o[i] >= o[i + 1]
               ELSE \A i \in 1..(n - 1) : o[i] <= o[i + 1]
            /\ tr = near + (hi - lo)
            /\ \A f \in Orders[n] : Travel(p, [i \in 1..n |-> ts[f[i]]]) >= tr
            /\ SumSeq([m \in 1..Len(planlog[j].kept) |-> Abs(planlog[j].kept[m][2])])
                 = tr

\* a chord visited from its highest target down, and a chord planned from the
\* midpoint of its targets
C8_Witness ==
    /\ Len(planlog) = 2
    /\ planlog[2].order[1] > planlog[2].order[Len(planlog[2].order)]
    /\ Len(planlog[1].order) = 2
    /\ Abs(planlog[1].p - planlog[1].order[1]) = Abs(planlog[1].p - planlog[1].order[2])
    /\ planlog[1].order[1] < planlog[1].order[2]

----------------------------------------------------------------------------
\* the events with an empty note set
EmptyEvents == {j \in 1..Len(events) : events[j].notes = <<>>}

FirstEmpty == CHOOSE j \in EmptyEvents : \A m \in EmptyEvents : j <= m

(* C9: when an event of the input has an empty note set, wherever it sits,  *)
(* run() fails with the InvalidInput error before any move of the plan is   *)
(* prepared or sent: the plan is never completed, no punch and no cut       *)
(* fires, and position keeps the value homing assigned.                     *)
C9_EmptyNoteSetFailsBeforeAnyMove ==
    EmptyEvents # {} =>
        /\ ~InDoRun
        /\ evi < FirstEmpty
        /\ \A i \in 1..Len(log) : log[i].ctx = "home"
        /\ (pc = "error" /\ err # "DeviceError") =>
              /\ err = "InvalidInput"
              /\ evi = FirstEmpty - 1
              /\ position = home_position
              /\ position = cfg.idle_position
        /\ (pc = "plan" /\ evi = FirstEmpty - 1) => ENABLED PlanEvent

\* the second event is the empty one, and homing had moved the mechanism
C9_Witness ==
    /\ pc = "error"
    /\ err = "InvalidInput"
    /\ evi = 1
    /\ cfg.zero_button
    /\ At("send", "home") # {}

\* the waves wave_create refused
Refused == {i \in AtOp("create") : log[i].id < 0}

(* C10: when the sink rejects the waveform of move k (wave_create returns   *)
(* a negative id) the run aborts at once: that waveform is not sent,        *)
(* nothing is prepared, sent, punched or cut afterwards, and position is    *)
(* the post-homing position plus the tone deltas of moves 0..k-1.           *)
C10_RejectedWaveAbortsRun ==
    \A i \in Refused :
        /\ i = Len(log)
        /\ pc = "error"
        /\ err = "DeviceError"
        /\ log[i].ctx = "step" =>
              LET k == log[i].k
              IN  /\ k = idx
                  /\ Cardinality(At("send", "step")) = k
                  /\ \A j \in At("send", "step") : log[j].k < k
                  /\ \A j \in At("prepare", "step") : log[j].k <= k
                  /\ Cardinality(AtOp("punch")) = k
                  /\ position = home_position + CumTone(k)

\* the waveform of the second move was refused after the first was confirmed
C10_Witness ==
    /\ pc = "error"
    /\ Refused # {}
    /\ log[Len(log)].ctx = "step"
    /\ log[Len(log)].k = 1
    /\ steps[1][2] # 0
    /\ position = home_position + steps[1][2]

----------------------------------------------------------------------------
(* run() called again on the same object after a run was aborted.          *)

\* the most further calls of run() on one object
MaxReruns == 1

\* run() is called again (line 42) once a run has raised: the object keeps
\* its fields, the locals of run() and do_run() are new, the note sequence is
\* the same, and the zero sensor reads on when the carriage stands on it
RunAgain ==
    /\ pc = "error"
    /\ Cardinality(Reruns) < MaxReruns
    /\ pc' = "run"
    /\ err' = ""
    /\ evi' = 0
    /\ homing_pulses' = 0
    /\ button' = (cfg.zero_button /\ phys # <<>> /\ phys[1] <= 0)
    /\ log' = Append(log, Entry("run", "again", -1, 0, 0))
    /\ UNCHANGED <<call, ret, phys, txleft, cfg, events, position, planpos,
                   steps, idx, total_time_steps, cutter_step, did_cut, mv, pi,
                   prepared_wave_length, gpio, prepared_from, planlog,
                   home_position>>

NextAgain ==
    \/ Next
    \/ RunAgain

SpecAgain == Init /\ [][NextAgain]_vars

\* the history entry of the latest further call of run()
LastRerun == CHOOSE i \in Reruns : \A j \in Reruns : j <= i

\* the carriage has been driven since history entry i
DrivenSince(i) ==
    \E j \in (i + 1)..Len(log) : log[j].op \in {"pulse", "send"}

\* a move of the plan had been confirmed before history entry i
StepConfirmedBefore(i) == \E j \in At("idle", "step") : j < i

(* C11: after a run is aborted by an error, the position it had confirmed   *)
(* stays authoritative for a further run: when a move of the aborted run    *)
(* had been confirmed, the further run() makes no homing pass, does not     *)
(* overwrite the retained position while the carriage has not been driven,  *)
(* and plans its first tone delta from the retained position.               *)
C11_RetainedPositionPlansNextRun ==
    (Reruns # {} /\ StepConfirmedBefore(LastRerun)) =>
        LET i == LastRerun
        IN  /\ \A j \in (i + 1)..Len(log) : log[j].ctx # "home"
            /\ ~DrivenSince(i) => position = log[i].pos
            /\ pc = "plan" => home_position = log[i].pos

\* a run was aborted away from idle, and the further run has planned from
\* the idle position without any move in between
C11_Witness ==
    /\ Reruns # {}
    /\ StepConfirmedBefore(LastRerun)
    /\ pc = "plan"
    /\ ~cfg.zero_button
    /\ log[LastRerun].pos # cfg.idle_position
    /\ home_position = cfg.idle_position
    /\ ~DrivenSince(LastRerun)

----------------------------------------------------------------------------
(* create_move_waveform called on its own, for motors of several           *)
(* configurations.                                                         *)

\* the longest move asked of create_move_waveform
MaxCount == 7

\* config['tone-stepper'] of the motors under call: the machine's, and ones
\* whose profile has no entry (max-sps = min-sps), one entry, three entries
MotorConfigs ==
    {StepperConfig.tone,
     [StepperConfig.tone EXCEPT !.min_sps = 50000, !.max_sps = 50000],
     [StepperConfig.tone EXCEPT !.max_sps = 60000],
     [StepperConfig.tone EXCEPT !.max_sps = 80000, !.acceleration = 800000000]}

\* PiGPIOStepperMotor.__init__ for a configuration: self.acceleration_profile
ProfileOf(sc) ==
    calculate_acceleration_profile(sc.min_sps, sc.max_sps, sc.acceleration)

\* the config of the MusicPuncher object whose functions are called on their
\* own: none of these functions reads it
BenchConfig ==
    [zero_button |-> FALSE, idle_position |-> 2, row0 |-> 1, tone_steps |-> 1,
     feed_steps |-> 1, cutter_position |-> 0, end_feed |-> 0]

\* the object as constructed, a function about to be called on its own
Bench ==
    /\ cfg = BenchConfig
    /\ events = <<>>
    /\ button = FALSE
    /\ pc = "call"
    /\ ret = "None"
    /\ Constructed

InitWaveform ==
    /\ call \in [fn : {"create_move_waveform"}, motor : MotorConfigs,
                 steps : (-MaxCount)..MaxCount]
    /\ Bench

\* create_move_waveform(steps) of the motor: line 214 writes the direction
\* pin, lines 216-236 build the pulse list
CallCreateMoveWaveform ==
    /\ pc = "call"
    /\ call.fn = "create_move_waveform"
    /\ gpio' = [gpio EXCEPT !.tone_dir = DirLevel(call.steps)]
    /\ ret' = MoveWaveform(ProfileOf(call.motor),
                           PyRound(1000000, call.motor.max_sps),
                           call.motor.step_pin, call.steps)
    /\ pc' = "returned"
    /\ UNCHANGED <<call, phys, txleft, cfg, events, button, err, position, evi,
                   planpos, steps, idx, total_time_steps, cutter_step, did_cut,
                   mv, pi, prepared_wave_length, homing_pulses, prepared_from,
                   log, planlog, home_position>>

NextWaveform == CallCreateMoveWaveform

SpecWaveform == InitWaveform /\ [][NextWaveform]_vars

\* the call of create_move_waveform is over
WaveformCalled == pc = "returned" /\ call.fn = "create_move_waveform"

\* count of line 221
CountOf(n) == IF n < 0 THEN -n ELSE n

\* the delay of each pulse of step i (0-based): the two pulses of a step
\* last equally long
StepHalfDelay(pulses, i) == pulses[2 * i + 1].delay

(* C12: for every count >= 0 (abs(steps), either sign) and every profile,   *)
(* the empty one included, create_move_waveform returns exactly 2*count     *)
(* pulses: per step one pulse raising the step pin and one lowering it,     *)
(* both of duration floor(delay/2) for a delay of the profile or the        *)
(* minimum delay; count = 0 gives an empty pulse train.                     *)
C12_TwoPulsesPerStep ==
    WaveformCalled =>
        LET count == CountOf(call.steps)
            mask  == PinMask(call.motor.step_pin)
            prof  == ProfileOf(call.motor)
            halves == {prof[j] \div 2 : j \in 1..Len(prof)}
                        \cup {PyRound(1000000, call.motor.max_sps) \div 2}
        IN  /\ ret.raised = ""
            /\ Len(ret.value) = 2 * count
            /\ count = 0 => ret.value = <<>>
            /\ \A i \in 0..(count - 1) :
                  /\ ret.value[2 * i + 1].gpio_on = mask
                  /\ ret.value[2 * i + 1].gpio_off = 0
                  /\ ret.value[2 * i + 2].gpio_on = 0
                  /\ ret.value[2 * i + 2].gpio_off = mask
                  /\ ret.value[2 * i + 2].delay = ret.value[2 * i + 1].delay
                  /\ StepHalfDelay(ret.value, i) \in halves

\* a move of one step or more by a motor whose profile is empty raised
\* IndexError
C12_Witness ==
    /\ WaveformCalled
    /\ ProfileOf(call.motor) = <<>>
    /\ call.steps # 0
    /\ ret.raised = "IndexError"

\* the smaller of two numbers
Min2(a, b) == IF a < b THEN a ELSE b

(* C13: the shape of a move planned with a profile of length L >= 1: for    *)
(* count <= 2*L the step delay at index i is profile[min(i, count-1-i)], a  *)
(* ramp up and down with no cruise entry; for count > 2*L the first L       *)
(* delays are the profile, the next count - 2*L are all min_delay and the   *)
(* last L are the profile reversed.                                         *)
C13_RampCruiseRamp ==
    (WaveformCalled /\ ProfileOf(call.motor) # <<>>) =>
        LET count == CountOf(call.steps)
            prof  == ProfileOf(call.motor)
            L     == Len(prof)
            mind  == PyRound(1000000, call.motor.max_sps)
        IN  /\ ret.raised = ""
            /\ Len(ret.value) = 2 * count
            /\ IF count <= 2 * L
               THEN \A i \in 0..(count - 1) :
                       StepHalfDelay(ret.value, i) =
                           prof[Min2(i, count - 1 - i) + 1] \div 2
               ELSE /\ \A i \in 0..(L - 1) :
                          StepHalfDelay(ret.value, i) = prof[i + 1] \div 2
                    /\ \A i \in L..(count - L - 1) :
                          StepHalfDelay(ret.value, i) = mind \div 2
                    /\ \A i \in (count - L)..(count - 1) :
                          StepHalfDelay(ret.value, i) = prof[count - i] \div 2

\* a move with a cruise phase between the two ramps of a three-entry profile
C13_Witness ==
    /\ WaveformCalled
    /\ Len(ProfileOf(call.motor)) = 3
    /\ CountOf(call.steps) = 7
    /\ call.steps < 0
    /\ ret.raised = ""
    /\ StepHalfDelay(ret.value, 3) = PyRound(1000000, call.motor.max_sps) \div 2

----------------------------------------------------------------------------
(* __synchronize and the two __add_wave calls after it (lines 121-124),    *)
(* called on pulse lists create_move_waveform returns.                     *)

\* the longest move of either pulse list
MaxSyncSteps == 6

\* the pulse lists create_move_waveform returns for moves of 0..MaxSyncSteps
\* steps on the given step pin, for every motor whose profile has entries
Trains(pin) ==
    {MoveWaveform(ProfileOf(m), PyRound(1000000, m.max_sps), pin, n).value :
        m \in {c \in MotorConfigs : ProfileOf(c) # <<>>}, n \in 0..MaxSyncSteps}

InitSync ==
    /\ call \in [fn : {"synchronize"},
                 wave1 : Trains(StepperConfig.feed.step_pin),
                 wave2 : Trains(StepperConfig.tone.step_pin)]
    /\ Bench

\* lines 121-124 of __prepare_waveform: __synchronize scales the pulse lists
\* in place, then both are handed to __add_wave
CallSynchronize ==
    /\ pc = "call"
    /\ call.fn = "synchronize"
    /\ ret' = Returned(synchronize(call.wave1, call.wave2))
    /\ prepared_wave_length' = synchronize(call.wave1, call.wave2).len
    /\ pi' = [pi EXCEPT !.waves =
                 add_wave(add_wave(pi.waves,
                                   synchronize(call.wave1, call.wave2).w1),
                          synchronize(call.wave1, call.wave2).w2)]
    /\ pc' = "returned"
    /\ UNCHANGED <<call, phys, txleft, cfg, events, button, err, position, evi,
                   planpos, steps, idx, total_time_steps, cutter_step, did_cut,
                   mv, gpio, homing_pulses, prepared_from, log, planlog,
                   home_position>>

NextSync == CallSynchronize

SpecSync == InitSync /\ [][NextSync]_vars

\* the call of __synchronize is over
Synchronized == pc = "returned" /\ call.fn = "synchronize"

\* the total duration of a pulse list
Duration(pulses) == SumSeq([i \in 1..Len(pulses) |-> pulses[i].delay])

\* after is before with every delay multiplied by longer / shorter and
\* rounded to the nearest integer, nothing else changed and no delay shorter
Stretched(before, after, longer, shorter) ==
    /\ Len(after) = Len(before)
    /\ \A i \in 1..Len(before) :
          /\ after[i].delay = NearestEven(before[i].delay * longer, shorter)
          /\ after[i].delay >= before[i].delay
          /\ after[i].gpio_on = before[i].gpio_on
          /\ after[i].gpio_off = before[i].gpio_off
    /\ Abs(Duration(after) - longer) <= Len(after)

(* C14: synchronizing two non-empty pulse trains of positive total          *)
(* durations l1 and l2 leaves the longer train unchanged, replaces every    *)
(* delay of the other by round(delay * longer / shorter), never a smaller   *)
(* delay than before, and returns max(l1, l2) whichever way round the       *)
(* arguments are given; afterwards the two totals differ by at most the     *)
(* number of pulses of the scaled train; if l1 = l2 both are unchanged.     *)
C14_ShorterTrainStretched ==
    (Synchronized /\ call.wave1 # <<>> /\ call.wave2 # <<>>) =>
        LET l1 == Duration(call.wave1)
            l2 == Duration(call.wave2)
            r  == ret.value
        IN  /\ l1 > 0 /\ l2 > 0
            /\ r.len = (IF l1 > l2 THEN l1 ELSE l2)
            /\ synchronize(call.wave2, call.wave1).len = r.len
            /\ l1 > l2 => /\ r.w1 = call.wave1
                          /\ Stretched(call.wave2, r.w2, l1, l2)
            /\ l2 > l1 => /\ r.w2 = call.wave2
                          /\ Stretched(call.wave1, r.w1, l2, l1)
            /\ l1 = l2 => r.w1 = call.wave1 /\ r.w2 = call.wave2

\* the tone train was the shorter one and a delay of it, stretched, fell
\* half-way between two integers
C14_Witness ==
    /\ Synchronized
    /\ call.wave1 # <<>> /\ call.wave2 # <<>>
    /\ Duration(call.wave1) > Duration(call.wave2)
    /\ ret.value.w2 # call.wave2
    /\ \E i \in 1..Len(call.wave2) :
          (2 * call.wave2[i].delay * Duration(call.wave1))
              % (2 * Duration(call.wave2)) = Duration(call.wave2)

(* C15: synchronizing one empty and one non-empty pulse train leaves every  *)
(* delay of the non-empty train as it was and the empty train empty, and    *)
(* returns the total duration of the non-empty train; only the non-empty    *)
(* train is added to the channel.                                           *)
C15_EmptyTrainLeftOut ==
    (Synchronized /\ (call.wave1 = <<>>) # (call.wave2 = <<>>)) =>
        LET full == IF call.wave1 = <<>> THEN call.wave2 ELSE call.wave1
        IN  /\ ret.value.w1 = call.wave1
            /\ ret.value.w2 = call.wave2
            /\ ret.value.len = Duration(full)
            /\ prepared_wave_length = Duration(full)
            /\ pi.waves = <<full>>

\* a feed-only move: the tone train is empty
C15_Witness ==
    /\ Synchronized
    /\ call.wave2 = <<>>
    /\ Len(call.wave1) = 2 * MaxSyncSteps
    /\ pi.waves = <<call.wave1>>

----------------------------------------------------------------------------
(* PiGPIOStepperMotor.__init__ (lines 186-193) on its own, the loop of     *)
(* calculate_acceleration_profile taken one iteration at a time.           *)

\* the most iterations of the loop of calculate_acceleration_profile that
\* are followed
MaxProfileLen == 3

\* config['min-sps'], config['max-sps'] and config['acceleration'] of the
\* motors constructed; sps and profile are the locals of lines 175-177
InitProfile ==
    /\ \E mn \in (-2)..3, mx \in (-1)..4, ac \in {2, 4} :
          call = [fn |-> "calculate_acceleration_profile", min_sps |-> mn,
                  max_sps |-> mx, acceleration |-> ac, sps |-> <<mn, 1>>,
                  profile |-> <<>>]
    /\ Bench

\* one test of `while sps < max_sps` (line 178) and, when it holds, lines
\* 179-180; 1000000 / sps raises ZeroDivisionError for sps = 0
ProfileLoop ==
    /\ pc = "call"
    /\ call.fn = "calculate_acceleration_profile"
    /\ IF call.sps[1] < call.max_sps * call.sps[2]
       THEN IF call.sps[1] = 0
            THEN /\ ret' = Raised("ZeroDivisionError")
                 /\ pc' = "raised"
                 /\ call' = call
            ELSE /\ Len(call.profile) < MaxProfileLen
                 /\ call' = [call EXCEPT
                       !.profile = Append(@, RoundDiv(1000000 * call.sps[2],
                                                      call.sps[1])),
                       !.sps = SpsAfter(call.sps[1], call.sps[2],
                                        call.acceleration)]
                 /\ UNCHANGED <<ret, pc>>
       ELSE /\ ret' = Returned(call.profile)
            /\ pc' = "profiled"
            /\ call' = call
    /\ UNCHANGED <<phys, txleft, cfg, events, button, err, position, evi,
                   planpos, steps, idx, total_time_steps, cutter_step, did_cut,
                   mv, pi, prepared_wave_length, gpio, homing_pulses,
                   prepared_from, log, planlog, home_position>>

\* lines 192-193: 1 / config['max-sps'] and 1 / config['min-sps']
MotorDelays ==
    /\ pc = "profiled"
    /\ IF call.max_sps = 0 \/ call.min_sps = 0
       THEN ret' = Raised("ZeroDivisionError") /\ pc' = "raised"
       ELSE ret' = ret /\ pc' = "constructed"
    /\ UNCHANGED <<call, phys, txleft, cfg, events, button, err, position, evi,
                   planpos, steps, idx, total_time_steps, cutter_step, did_cut,
                   mv, pi, prepared_wave_length, gpio, homing_pulses,
                   prepared_from, log, planlog, home_position>>

NextProfile ==
    \/ ProfileLoop
    \/ MotorDelays

SpecProfile == InitProfile /\ [][NextProfile]_vars

\* the speeds the configuration must be refused for
InvalidSpeeds == call.min_sps <= 0 \/ call.max_sps < call.min_sps

(* C16: when min_speed <= 0 or max_speed < min_speed, profile generation    *)
(* fails with an error: it returns no profile, not even an empty one, the   *)
(* motor is not constructed, and the loop does not go on iterating.         *)
C16_InvalidSpeedsRejected ==
    (call.fn = "calculate_acceleration_profile" /\ InvalidSpeeds) =>
        /\ pc \notin {"profiled", "constructed"}
        /\ Len(call.profile) < MaxProfileLen

\* a motor with max-sps below a positive min-sps was constructed, with an
\* empty profile
C16_Witness ==
    /\ pc = "constructed"
    /\ call.fn = "calculate_acceleration_profile"
    /\ call.min_sps > 0
    /\ call.max_sps < call.min_sps
    /\ ret.value = <<>>

\* for a negative min-sps the loop is still running after MaxProfileLen
\* iterations, sps further below max-sps than it started
C16_StillLooping ==
    /\ pc = "call"
    /\ call.fn = "calculate_acceleration_profile"
    /\ call.min_sps < 0
    /\ Len(call.profile) = MaxProfileLen
    /\ call.sps[1] < call.min_sps * call.sps[2]
    /\ call.sps[1] < call.max_sps * call.sps[2]

----------------------------------------------------------------------------
(* reset() on its own (lines 107-115), from the call to its return, for    *)
(* idle positions from 0 up.                                               *)

\* config of the machines reset() is followed on
HomingConfigs ==
    [zero_button : BOOLEAN, idle_position : 0..3, row0 : {1}, tone_steps : {1},
     feed_steps : {1}, cutter_position : {0, 1}, end_feed : {0}]

InitHoming ==
    /\ cfg \in HomingConfigs
    /\ events = <<>>
    /\ button \in (IF cfg.zero_button THEN BOOLEAN ELSE {FALSE})
    /\ pc = "run"
    /\ call = [fn |-> "reset"]
    /\ ret = "None"
    /\ Constructed

\* the steps of the thread that runs reset()
ResetStep ==
    \/ Reset
    \/ HomingPulse
    \/ HomingDone
    \/ MovePrepare
    \/ MoveSend
    \/ MoveWait

NextHoming ==
    \/ ResetStep
    \/ SensorOn
    \/ TxDone

\* the thread goes on while it can (each of its steps changes pc or the
\* pulse count), and the channel finishes the wave it was sent; nothing makes
\* the sensor report on
SpecHoming ==
    /\ InitHoming
    /\ [][NextHoming]_vars
    /\ WF_<<pc, homing_pulses>>(ResetStep)
    /\ WF_pi(TxDone)

\* reset() has returned: line 45 is next
ResetReturned == pc = "planinit"

\* the waveforms reset() has sent
HomeSends == At("send", "home")

\* what reset() does on the way, with and without a sensor
HomingSteps ==
    /\ [][homing_pulses' # homing_pulses =>
            /\ cfg.zero_button
            /\ ~button
            /\ gpio.tone_dir = 0
            /\ homing_pulses' = homing_pulses + 1
            /\ pc' = pc]_homing_pulses
    /\ [][button => homing_pulses' = homing_pulses]_homing_pulses
    /\ [](\A i \in 1..Len(log) : log[i].op # "pulse" => log[i].ctx = "home")
    /\ [](\A i \in HomeSends :
            /\ cfg.zero_button
            /\ log[i].pos = 0
            /\ log[i].feed = 0
            /\ log[i].tone = cfg.idle_position
            /\ pi.waves = PreparedWaves(0, cfg.idle_position))
    /\ [](Cardinality(HomeSends) <= 1)
    /\ [](ResetReturned /\ cfg.zero_button =>
            Cardinality(HomeSends) = (IF cfg.idle_position = 0 THEN 0 ELSE 1))
    /\ [](~cfg.zero_button => homing_pulses = 0 /\ log = <<>> /\ txleft = 0)
    /\ [](ResetReturned => position = cfg.idle_position)
    /\ [](ResetReturned /\ cfg.zero_button => button)

(* C17 as stated: with a zero sensor the tone axis is stepped only in the   *)
(* negative direction and only while the sensor reads off, stepping stops   *)
(* at the first on-reading, position is set to 0 and one move of            *)
(* +idle_position follows (a move of 0 steps sends nothing, line 100);      *)
(* without a sensor no pulse is emitted and no waveform sent; position =    *)
(* idle_position when reset returns; and with a sensor reset returns if     *)
(* and only if the sensor eventually reports on.                            *)
C17_Original_ReturnsIffSensorOn ==
    /\ HomingSteps
    /\ (cfg.zero_button /\ button) ~> ResetReturned

(* C17, amended: as stated, except that with a sensor reset returns only   *)
(* if the sensor has reported on and, once it has, either returns or raises *)
(* the error of a waveform the device refused, in which case no waveform    *)
(* was sent and position stays 0.                                           *)
C17_HomingThenIdle ==
    /\ HomingSteps
    /\ [](pc = "error" => /\ err = "DeviceError"
                          /\ Refused # {}
                          /\ HomeSends = {}
                          /\ cfg.idle_position # 0
                          /\ position = 0)
    /\ (cfg.zero_button /\ button) ~> (ResetReturned \/ pc = "error")

\* reset() has returned after a pulse towards the sensor and the move to a
\* non-zero idle position
C17_Witness ==
    /\ ResetReturned
    /\ cfg.zero_button
    /\ homing_pulses >= 1
    /\ cfg.idle_position > 0
    /\ position = cfg.idle_position
    /\ Cardinality(HomeSends) = 1

(***************************************************************************)
(* The direction pins and the wave in flight.  __set_dir writes the pin at *)
(* once (line 199) while the pulses of the wave that was sent are emitted  *)
(* by the device on its own; the stepper driver reads the direction pin at *)
(* each step pulse.  TxPulse lets the device emit the tone pulses of the   *)
(* wave in flight one at a time, so that a direction write made while the  *)
(* wave transmits may fall before, between or after its pulses.            *)
(***************************************************************************)
TxPulse ==
    /\ pi.busy
    /\ txleft > 0
    /\ phys' = Carried(phys, ToneStep)
    /\ txleft' = txleft - 1
    /\ UNCHANGED <<call, ret, cfg, events, button, pc, err, position, evi,
                   planpos, steps, idx, total_time_steps, cutter_step, did_cut,
                   mv, pi, prepared_wave_length, gpio, homing_pulses,
                   prepared_from, log, planlog, home_position>>

NextPhys ==
    \/ Next
    \/ TxPulse

SpecPhys == Init /\ [][NextPhys]_vars

\* the move whose wave was sent last
LastSent == log[CHOOSE i \in AtOp("send") : \A j \in AtOp("send") : j <= i]

\* the last operation of the log confirmed a move (__wait_for_wave returned
\* and position was advanced, lines 80-81 and 104-105)
MoveConfirmed == Len(log) > 0 /\ log[Len(log)].op = "idle"

\* a waveform was prepared, its direction pins written, while the channel
\* was transmitting a wave that steps the tone axis the other way
ReversedInFlight ==
    \E i \in AtOp("prepare") :
        /\ log[i].busy
        /\ i > 1
        /\ log[i - 1].op = "send"
        /\ log[i - 1].tone # 0
        /\ DirLevel(log[i].tone) # DirLevel(log[i - 1].tone)

(* C18: while the wave of a move transmits, the direction pin of each axis *)
(* the wave steps holds the sign of that move's step count for the axis,   *)
(* and after every confirmed move the tracked position equals the physical *)
(* tone position.                                                          *)
C18_DirectionPinsHeldWhileTransmitting ==
    /\ (pi.busy /\ AtOp("send") # {}) =>
          /\ LastSent.feed # 0 => gpio.feed_dir = DirLevel(LastSent.feed)
          /\ LastSent.tone # 0 => gpio.tone_dir = DirLevel(LastSent.tone)
    /\ MoveConfirmed => phys = <<position>>

\* a move was confirmed after the direction of the tone axis was reversed
\* while its wave was in flight
C18_Witness ==
    /\ MoveConfirmed
    /\ ReversedInFlight
    /\ log[Len(log)].ctx = "step"
    /\ phys # <<position>>

(***************************************************************************)
(* The shared channel between a send and its wait.  A "prepare" entry of   *)
(* the log stands for the whole of __prepare_waveform: wave_clear (line    *)
(* 118) and the wave_add_generic calls (lines 123-124); its busy field is  *)
(* what wave_tx_busy would have answered when it was issued.               *)
(***************************************************************************)
PreparedWhileBusy == {i \in AtOp("prepare") : log[i].busy}

(* C19 as stated: once a waveform has been sent the channel is neither     *)
(* cleared nor refilled until it has reported idle for that waveform.      *)
C19_Original_NoClearWhileTransmitting == PreparedWhileBusy = {}

(* C19, amended: a waveform is created and sent only while the channel is  *)
(* idle; the channel is cleared and refilled while it transmits only by    *)
(* the per-step loop, for move k+1 directly after the send of move k, and  *)
(* at most once per wave in flight.                                        *)
C19_ChannelIdleAtCreateAndSend ==
    /\ \A i \in AtOp("create") \cup AtOp("send") : ~log[i].busy
    /\ \A i \in PreparedWhileBusy :
          /\ log[i].ctx = "step"
          /\ log[i].k >= 1
          /\ i > 1
          /\ log[i - 1].op = "send"
          /\ log[i - 1].ctx = "step"
          /\ log[i - 1].k = log[i].k - 1
    /\ (pi.busy /\ AtOp("send") # {}) =>
          LET sent == CHOOSE i \in AtOp("send") : \A j \in AtOp("send") : j <= i
          IN  Cardinality({i \in AtOp("prepare") : i > sent}) <= 1

\* a wave prepared while the previous one was transmitting has been created
\* and sent after the channel reported idle
C19_Witness ==
    \E i \in PreparedWhileBusy :
        \E j \in At("send", "step") :
            /\ j > i
            /\ log[j].k = log[i].k
            /\ ~log[j].busy

(***************************************************************************)
(* Holes.  A punch entry of the log carries the tone position at which the *)
(* punch fired and the index k of the MoveStep it followed; the feed the   *)
(* paper has made by then is the sum of the feeds of steps 1..k+1.         *)
(***************************************************************************)
\* the cumulative feed at which the notes of event j are due: the scaled
\* delays of the events up to and including j (line 54)
DueFeed(j) == SumSeq([e \in 1..j |-> ScaledDelay(cfg, events[e].delay2)])

\* the punches that made the hole of a note of event j
HolesFor(j, note) ==
    {i \in AtOp("punch") : /\ log[i].pos = Resolve(note)
                           /\ CumFeed(log[i].k + 1) = DueFeed(j)}

(* C20: no hole is skipped. When a run has completed, every note of every  *)
(* event has a punch fired at the note's resolved position and at the      *)
(* cumulative feed of its event; there is one punch per MoveStep, each     *)
(* directly after the confirmation of a move of the per-step loop.         *)
C20_NoHoleSkipped ==
    /\ pc = "done" =>
          /\ \A j \in 1..Len(events) :
                \A n \in 1..Len(events[j].notes) :
                    HolesFor(j, events[j].notes[n]) # {}
          /\ Cardinality(AtOp("punch")) = Len(steps)
    /\ \A i \in AtOp("punch") :
          /\ log[i].ctx = "step"
          /\ i > 1
          /\ log[i - 1].op = "idle"
          /\ log[i - 1].ctx = "step"
          /\ \A h \in AtOp("punch") : h # i => log[h].k # log[i].k

\* a run has completed whose first event has a delay that scales to 0 and a
\* note at the idle position, and no punch made that note's hole
C20_Witness ==
    /\ pc = "done"
    /\ Len(events) >= 1
    /\ ScaledDelay(cfg, events[1].delay2) = 0
    /\ Resolve(events[1].notes[1]) = cfg.idle_position
    /\ HolesFor(1, events[1].notes[1]) = {}

====
